---- MODULE Spec2Model ----
(***************************************************************************)
(* Model of src/app.py: the projection engine newinvestment (lines 8-41)   *)
(* and the Streamlit host script around it (lines 51-208).                 *)
(*                                                                         *)
(* Numbers.  Python evaluates y0 * (1 + t / 100) + a on real-valued        *)
(* operands and truncates with int().  Real amounts are modelled as exact  *)
(* rationals: t is a whole number of percent, and the contribution a and   *)
(* initial_balance are numerators over the denominator Frac (a = 3 with    *)
(* Frac = 2 is the amount 1.5).  Goals, the withdrawal amount and the      *)
(* running balance y0 are integers.  Binary floating-point rounding error  *)
(* is not modelled.                                                        *)
(*                                                                         *)
(* Lists.  Python lists are mutable objects reached through references.    *)
(* heap maps each list object to its contents; the locals goals and iter   *)
(* hold references, so that aliasing and copying are distinguishable.      *)
(***************************************************************************)
EXTENDS Integers, Sequences, FiniteSets, TLC

\* ---------------------------------------------------------------- bounds
Frac == 2                \* amounts are multiples of 1/Frac
MaxGoals == 2            \* engine runs: length of the goal list
MaxGoal == 3             \* engine runs: largest goal threshold
MaxBudget == 3           \* engine runs: largest withdrawal amount
MaxLimit == 2            \* engine runs: largest horizon
MaxInitial == 4          \* engine runs: largest initial balance, in 1/Frac
MaxContribution == 3     \* engine runs: largest contribution, in 1/Frac
MaxSessionGoals == 4     \* host runs: cap on the session goal list

Rates == {0, 50, 100}    \* monthly rates (percent) the engine runs draw

\* Python's None: as a message, and as a simulation result
None == "None"
NoResult == <<>>

\* widget values the host runs draw (lines 59-97), in currency units
HostRates == {-50, 0, 100}
HostLimits == {1, 2}
HostInitials == {0, 45000}
HostContributions == {0, 20000}
HostBudgets == {0, 5000, 100000}
HostNewGoals == {10000, 60000}

VARIABLES
    pc,               \* position: host script or engine
    heap,             \* list objects: "travelgoals" (caller's), "goals", "iter"
    t,                \* rate, percent
    a,                \* contribution, numerator over Frac
    travelbudget,     \* withdrawal amount
    limit,            \* horizon in months
    initial_balance,  \* numerator over Frac
    x0, y0, y, y_start, withdraw_months,   \* engine locals, lines 16-23
    goals,            \* reference held by the local goals
    iter,             \* reference the for loop of line 29 iterates
    idx,              \* position of the list iterator (1-based)
    ret,              \* value returned by newinvestment, NoResult before
    validation_error, \* line 122
    sim_data,         \* lines 128-141
    error_shown,      \* message passed to st.error, None if none
    chart_rendered, summary_rendered,      \* lines 144-208
    \* history
    arg_goals,        \* contents of the caller's list at the call
    grown,            \* balance of the current month after line 28
    fired,            \* iterator positions that withdrew in this pass
    pass_goals,       \* contents of goals at the start of this pass
    withdrawn_goals,  \* thresholds of the withdrawals, in order
    outcome           \* how the call of this run ended, if it was made

args == <<t, a, travelbudget, limit, initial_balance>>
locals == <<x0, y0, y, y_start, withdraw_months, goals, iter, idx>>
host == <<validation_error, sim_data, error_shown, chart_rendered, summary_rendered>>
hist == <<arg_goals, grown, fired, pass_goals, withdrawn_goals>>
vars == <<pc, heap, args, locals, ret, host, hist, outcome>>

\* ------------------------------------------------------------- helpers
\* int(n / d) for d > 0: truncation toward zero
TruncDiv(n, d) == IF n >= 0 THEN n \div d ELSE -((-n) \div d)

\* int(initial_balance), line 17
int_initial(ib) == TruncDiv(ib, Frac)

\* floor-then-add variant of the monthly update
grow_floor_first(bal, rate, contrib) ==
    TruncDiv(((bal * (100 + rate)) \div 100) * Frac + contrib, Frac)

\* int(y0 * (1 + t / 100) + a), line 28
grow(bal, rate, contrib) ==
    TruncDiv(bal * (100 + rate) * Frac + contrib * 100, 100 * Frac)

loop_cond_inclusive(x, lim) == x <= lim

\* while x0 < limit, line 25
loop_cond(x, lim) == x < lim

crossed_or_equal(bal, goal) == bal >= goal

\* if y0 > goal, line 30
crossed(bal, goal) == bal > goal

insufficient_or_equal(budget, bal) == budget >= bal

never_insufficient(budget, bal) == FALSE

\* if travelbudget > y0, line 31
insufficient(budget, bal) == budget > bal

month_zero_based(x) == x

\* x0 + 1, line 37
month_number(x) == x + 1

Contains(s, v) == \E i \in 1..Len(s) : s[i] = v

FirstIndex(s, v) == CHOOSE i \in 1..Len(s) : s[i] = v /\ \A j \in 1..(i - 1) : s[j] # v

remove_nothing(s, v) == s

\* list.remove(v), line 36: drops the first occurrence
remove(s, v) ==
    LET k == FirstIndex(s, v)
    IN  [i \in 1..(Len(s) - 1) |-> IF i < k THEN s[i] ELSE s[i + 1]]

alias_of(src, fresh) == src

\* goals = list(travelgoals), line 22: the reference of the new list object
working_copy(src, fresh) == fresh

\* list(goals), line 29: the reference of the new list object
pass_snapshot(src, fresh) == fresh

\* ------------------------------------------------- newinvestment, 8-41
\* lines 16-23
Enter ==
    /\ pc = "call"
    /\ x0' = 0
    /\ y0' = int_initial(initial_balance)
    /\ y' = <<>>
    /\ y_start' = <<>>
    /\ heap' = [heap EXCEPT !["goals"] = heap["travelgoals"]]
    /\ goals' = working_copy("travelgoals", "goals")
    /\ withdraw_months' = <<>>
    /\ pc' = "while"
    /\ grown' = 0 /\ fired' = {} /\ pass_goals' = <<>> /\ withdrawn_goals' = <<>>
    /\ UNCHANGED <<outcome, args, iter, idx, ret, host, arg_goals>>

\* lines 25-29: one more month; start-of-month record, growth, goal pass set up
MonthBegin ==
    /\ pc = "while"
    /\ loop_cond(x0, limit)
    /\ y_start' = Append(y_start, y0)
    /\ y0' = grow(y0, t, a)
    /\ heap' = [heap EXCEPT !["iter"] = heap[goals]]
    /\ iter' = pass_snapshot(goals, "iter")
    /\ idx' = 1
    /\ pc' = "for"
    /\ grown' = y0' /\ fired' = {} /\ pass_goals' = heap[goals]
    /\ UNCHANGED <<outcome, args, x0, y, withdraw_months, goals, ret, host,
                   arg_goals, withdrawn_goals>>

\* lines 25, 41: the loop is over, the three lists are returned
Return ==
    /\ pc = "while"
    /\ ~loop_cond(x0, limit)
    /\ ret' = <<y, y_start, withdraw_months>>
    /\ pc' = "returned"
    /\ outcome' = "returned"
    /\ UNCHANGED <<heap, args, locals, host, hist>>

HasNext == pc = "for" /\ idx <= Len(heap[iter])
goal == heap[iter][idx]

\* lines 29-30: the goal is not exceeded
GoalNotCrossed ==
    /\ HasNext
    /\ ~crossed(y0, goal)
    /\ idx' = idx + 1
    /\ UNCHANGED <<outcome, pc, heap, args, x0, y0, y, y_start, withdraw_months, goals,
                   iter, ret, host, hist>>

\* lines 30-34: the withdrawal is larger than the balance
RaiseInvalidWithdrawal ==
    /\ HasNext
    /\ crossed(y0, goal)
    /\ insufficient(travelbudget, y0)
    /\ pc' = "raised"
    /\ outcome' = "raised"
    /\ UNCHANGED <<heap, args, locals, ret, host, hist>>

\* lines 30-37: the withdrawal
Withdraw ==
    /\ HasNext
    /\ crossed(y0, goal)
    /\ ~insufficient(travelbudget, y0)
    /\ y0' = y0 - travelbudget
    /\ IF Contains(heap[goals], goal)
       THEN /\ heap' = [heap EXCEPT ![goals] = remove(@, goal)]
            /\ withdraw_months' = Append(withdraw_months, month_number(x0))
            /\ idx' = idx + 1
            /\ fired' = fired \cup {idx}
            /\ withdrawn_goals' = Append(withdrawn_goals, goal)
            /\ pc' = pc
            /\ outcome' = outcome
       ELSE \* list.remove raises ValueError
            /\ pc' = "raised"
            /\ outcome' = "raised"
            /\ UNCHANGED <<heap, withdraw_months, idx, fired, withdrawn_goals>>
    /\ UNCHANGED <<args, x0, y, y_start, goals, iter, ret, host,
                   arg_goals, grown, pass_goals>>

\* lines 38-39: the pass is over
MonthEnd ==
    /\ pc = "for"
    /\ idx > Len(heap[iter])
    /\ y' = Append(y, y0)
    /\ x0' = x0 + 1
    /\ pc' = "while"
    /\ UNCHANGED <<outcome, heap, args, y0, y_start, withdraw_months, goals, iter, idx,
                   ret, host, hist>>

Engine ==
    \/ Enter
    \/ MonthBegin
    \/ Return
    \/ GoalNotCrossed
    \/ RaiseInvalidWithdrawal
    \/ Withdraw
    \/ MonthEnd

EnginePcs == {"call", "while", "for", "returned", "raised"}

\* ------------------------------------------------------ host script
InitialSessionGoals == <<30000, 50000, 80000>>     \* line 52

InvalidWithdrawal == "Saque invalido: o valor do saque e maior que o patrimonio no mes."

accept_any_rate(rate, horizon, gs, initial, contribution, budget) == None

\* lines 110-119
validate_inputs(rate, horizon, gs, initial, contribution, budget) ==
    IF rate < 0 THEN "A taxa mensal nao pode ser negativa."
    ELSE IF horizon <= 0 THEN "O horizonte deve ser maior que zero."
    ELSE IF \E i \in 1..Len(gs) : gs[i] <= 0
         THEN "Todas as metas devem ser maiores que zero."
    ELSE IF initial < 0 \/ contribution < 0 \/ budget < 0
         THEN "Valores monetarios nao podem ser negativos."
    ELSE None

\* lines 57-107: one rerun of the script reads the widgets and the buttons
ScriptInputs ==
    /\ pc \in {"start", "idle"}
    /\ \E rate \in HostRates, lim \in HostLimits, initial \in HostInitials,
          contribution \in HostContributions, budget \in HostBudgets,
          new_goal \in HostNewGoals, click \in {"none", "add", "clear"} :
          LET session == heap["travelgoals"]
              added == IF click = "add" THEN Append(session, new_goal) ELSE session
              kept == IF added # <<>> /\ click = "clear" THEN <<>> ELSE added
          IN  /\ click = "add" => Len(session) < MaxSessionGoals
              /\ t' = rate
              /\ limit' = lim
              /\ initial_balance' = initial * Frac
              /\ a' = contribution * Frac
              /\ travelbudget' = budget
              /\ heap' = [heap EXCEPT !["travelgoals"] = kept]
    /\ pc' = "validate"
    /\ validation_error' = None
    /\ sim_data' = NoResult
    /\ error_shown' = None
    /\ chart_rendered' = FALSE
    /\ summary_rendered' = FALSE
    /\ outcome' = "not_called"
    /\ UNCHANGED <<locals, ret, hist>>

\* lines 122-124
Validate ==
    /\ pc = "validate"
    /\ validation_error' = validate_inputs(t, limit, heap["travelgoals"],
                                           initial_balance, a, travelbudget)
    /\ pc' = "checked"
    /\ UNCHANGED <<outcome, heap, args, locals, ret, sim_data, error_shown,
                   chart_rendered, summary_rendered, hist>>

\* lines 126-128
Rejected ==
    /\ pc = "checked"
    /\ validation_error # None
    /\ error_shown' = validation_error
    /\ sim_data' = NoResult
    /\ pc' = "render"
    /\ UNCHANGED <<outcome, heap, args, locals, ret, validation_error,
                   chart_rendered, summary_rendered, hist>>

\* lines 129-138: the call
Invoke ==
    /\ pc = "checked"
    /\ validation_error = None
    /\ arg_goals' = heap["travelgoals"]
    /\ pc' = "call"
    /\ UNCHANGED <<outcome, heap, args, locals, ret, host, grown, fired, pass_goals,
                   withdrawn_goals>>

\* the frame of newinvestment is gone once the call is over
FrameDropped ==
    /\ x0' = 0 /\ y0' = 0 /\ y' = <<>> /\ y_start' = <<>> /\ withdraw_months' = <<>>
    /\ goals' = "goals" /\ iter' = "iter" /\ idx' = 1
    /\ ret' = NoResult
    /\ heap' = [heap EXCEPT !["goals"] = <<>>, !["iter"] = <<>>]
    /\ arg_goals' = <<>>
    /\ grown' = 0 /\ fired' = {} /\ pass_goals' = <<>> /\ withdrawn_goals' = <<>>

\* line 131: the call returned
AssignSimData ==
    /\ pc = "returned"
    /\ sim_data' = ret
    /\ pc' = "render"
    /\ FrameDropped
    /\ UNCHANGED <<outcome, args, validation_error, error_shown,
                   chart_rendered, summary_rendered>>

\* lines 139-141
CatchValueError ==
    /\ pc = "raised"
    /\ error_shown' = InvalidWithdrawal
    /\ sim_data' = NoResult
    /\ pc' = "render"
    /\ FrameDropped
    /\ UNCHANGED <<outcome, args, validation_error, chart_rendered, summary_rendered>>

\* lines 144-208: the chart tab and the summary tab
Render ==
    /\ pc = "render"
    /\ chart_rendered' = (sim_data # NoResult)
    /\ summary_rendered' = (sim_data # NoResult)
    /\ pc' = "idle"
    /\ UNCHANGED <<outcome, heap, args, locals, ret, validation_error, sim_data,
                   error_shown, hist>>

\* ---------------------------------------------------- specifications
GoalLists == UNION {[1..n -> 1..MaxGoal] : n \in 0..MaxGoals}

InitLocals ==
    /\ x0 = 0 /\ y0 = 0 /\ y = <<>> /\ y_start = <<>> /\ withdraw_months = <<>>
    /\ goals = "goals" /\ iter = "iter" /\ idx = 1
    /\ ret = NoResult
    /\ grown = 0 /\ fired = {} /\ pass_goals = <<>> /\ withdrawn_goals = <<>>
    /\ outcome = "not_called"

InitHost ==
    /\ validation_error = None /\ sim_data = NoResult /\ error_shown = None
    /\ chart_rendered = FALSE /\ summary_rendered = FALSE

\* a direct call of newinvestment with inputs validate_inputs accepts
EngineInit ==
    /\ pc = "call"
    /\ t \in Rates
    /\ a \in 0..MaxContribution
    /\ travelbudget \in 0..MaxBudget
    /\ limit \in 1..MaxLimit
    /\ initial_balance \in 0..MaxInitial
    /\ \E gs \in GoalLists :
          /\ heap = [r \in {"travelgoals", "goals", "iter"} |->
                        IF r = "travelgoals" THEN gs ELSE <<>>]
          /\ arg_goals = gs
    /\ InitLocals
    /\ InitHost

EngineNext == Engine

EngineSpec == EngineInit /\ [][EngineNext]_vars

\* the script: session state as first created (lines 51-52)
Init ==
    /\ pc = "start"
    /\ t = 0 /\ a = 0 /\ travelbudget = 0 /\ limit = 1 /\ initial_balance = 0
    /\ heap = [r \in {"travelgoals", "goals", "iter"} |->
                  IF r = "travelgoals" THEN InitialSessionGoals ELSE <<>>]
    /\ arg_goals = <<>>
    /\ InitLocals
    /\ InitHost

Next ==
    \/ ScriptInputs
    \/ Validate
    \/ Rejected
    \/ Invoke
    \/ Enter
    \/ MonthBegin
    \/ Return
    \/ GoalNotCrossed
    \/ RaiseInvalidWithdrawal
    \/ Withdraw
    \/ MonthEnd
    \/ AssignSimData
    \/ CatchValueError
    \/ Render

Spec == Init /\ [][Next]_vars

TypeOK ==
    /\ pc \in EnginePcs \cup {"start", "idle", "validate", "checked", "render"}
    /\ outcome \in {"not_called", "returned", "raised"}
    /\ x0 \in Nat /\ y0 \in Int /\ idx \in Nat

\* ------------------------------------------------------------ properties
Count(s, v) == Cardinality({i \in 1..Len(s) : s[i] = v})
Elems(s) == {s[i] : i \in 1..Len(s)}
Last(s) == s[Len(s)]
PassOver == pc = "for" /\ idx > Len(heap[iter])

\* C1: the call fails exactly at a check of a still-active goal with
\* balance > goal and withdrawal amount > balance: such a check always ends
\* the call at once without a result, and the call never fails otherwise.
C1_FailsExactlyOnInvalidWithdrawal ==
    [][LET moment == /\ pc = "for"
                     /\ idx <= Len(heap[iter])
                     /\ y0 > heap[iter][idx]
                     /\ travelbudget > y0
       IN  /\ moment => (pc' = "raised" /\ ret' = NoResult)
           /\ (pc' = "raised" /\ pc # "raised") => moment]_vars

\* the call failed in a pass in which an earlier goal had already withdrawn
C1_Witness == pc = "raised" /\ ret = NoResult /\ fired # {}

\* C2: the caller's goal list has the contents and order it had at the call,
\* at every point of the call, whether the call returns or fails.
C2_CallerGoalsUnchanged == heap["travelgoals"] = arg_goals

\* the call returned after removing goals from its working copy
C2_Witness ==
    /\ pc = "returned"
    /\ Len(withdraw_months) > 0
    /\ heap[goals] # heap["travelgoals"]
    /\ heap["travelgoals"] = arg_goals

\* C3 as stated: each threshold value accounts for at most one withdrawal,
\* and a threshold that has withdrawn is no longer among the active goals.
C3_OneWithdrawalPerThreshold ==
    \A v \in Elems(arg_goals) :
        /\ Count(withdrawn_goals, v) <= 1
        /\ Count(withdrawn_goals, v) = 1 => ~Contains(heap[goals], v)

\* C3 amended: each entry of the goal list withdraws at most once and leaves
\* the active list when it does: per threshold value, the withdrawals and the
\* entries still active add up to the entries of the input list; a value that
\* occurs once in the input accounts for at most one withdrawal and is not
\* active after it.
C3_EachEntryAtMostOnce ==
    pc # "call" =>
        \A v \in Elems(arg_goals) \cup Elems(withdrawn_goals) :
            /\ Count(withdrawn_goals, v) + Count(heap[goals], v) = Count(arg_goals, v)
            /\ Count(arg_goals, v) = 1 =>
                   /\ Count(withdrawn_goals, v) <= 1
                   /\ Count(withdrawn_goals, v) = 1 => ~Contains(heap[goals], v)

\* two entries with the same threshold have each withdrawn, in different months
C3_Witness ==
    /\ Len(withdrawn_goals) = 2
    /\ withdrawn_goals[1] = withdrawn_goals[2]
    /\ withdraw_months[1] < withdraw_months[2]

\* C4 as stated: in the last month of a run that returned, every goal active
\* at the start of the pass and below the post-growth balance has withdrawn.
C4_EveryExceededGoalWithdraws ==
    pc = "returned" =>
        \A i \in 1..Len(pass_goals) : grown > pass_goals[i] => i \in fired

\* C4 amended: at the end of every goal pass, every goal active at the start
\* of the pass whose threshold is below the balance at the moment it is
\* checked (the post-growth balance less the withdrawals made earlier in the
\* same pass) has withdrawn in that pass.
C4_ExceededWhenCheckedWithdraws ==
    PassOver =>
        \A i \in 1..Len(pass_goals) :
            grown - travelbudget * Cardinality({j \in fired : j < i}) > pass_goals[i]
                => i \in fired

\* a pass ended in which a goal below the post-growth balance did not withdraw
\* because an earlier withdrawal had lowered the balance
C4_Witness ==
    /\ PassOver
    /\ fired # {}
    /\ \E i \in 1..Len(pass_goals) : grown > pass_goals[i] /\ i \notin fired

\* C5: on return, withdraw_months is no longer than the goal list, its
\* entries lie in 1..limit and they never decrease.
C5_WithdrawMonthsBounded ==
    pc = "returned" =>
        LET wm == ret[3]
        IN  /\ Len(wm) <= Len(arg_goals)
            /\ \A i \in 1..Len(wm) : wm[i] \in 1..limit
            /\ \A i \in 1..(Len(wm) - 1) : wm[i] <= wm[i + 1]

\* returned with two withdrawals, both made in the second month
C5_Witness ==
    /\ pc = "returned"
    /\ Len(ret[3]) = 2
    /\ ret[3][1] = ret[3][2]
    /\ ret[3][1] = 2

\* C6: on return the loop has run exactly limit times and both balance
\* lists have length limit.
C6_LengthsEqualHorizon ==
    pc = "returned" =>
        /\ x0 = limit
        /\ Len(ret[1]) = limit
        /\ Len(ret[2]) = limit

\* returned from a run of more than one month
C6_Witness == pc = "returned" /\ limit >= 2 /\ Len(ret[1]) = limit

ValidAsSpecified ==
    /\ t >= 0
    /\ limit > 0
    /\ \A i \in 1..Len(heap["travelgoals"]) : heap["travelgoals"][i] > 0
    /\ initial_balance >= 0 /\ a >= 0 /\ travelbudget >= 0

\* C8: the engine is only ever called on inputs the validator accepts; once a
\* run of the script is over, chart and summary are rendered exactly when the
\* inputs were valid and the call returned; a failed call leaves sim_data
\* empty and its message shown.
C8_RenderedIffValidAndReturned ==
    /\ (pc \in EnginePcs \/ outcome # "not_called") => ValidAsSpecified
    /\ pc = "idle" =>
           /\ chart_rendered = (ValidAsSpecified /\ outcome = "returned")
           /\ summary_rendered = chart_rendered
           /\ outcome = "raised" =>
                  sim_data = NoResult /\ error_shown = InvalidWithdrawal
           /\ ~ValidAsSpecified => error_shown = validation_error

\* a run of the script ended after the engine failed: nothing rendered
C8_Witness ==
    /\ pc = "idle"
    /\ outcome = "raised"
    /\ ~chart_rendered
    /\ error_shown = InvalidWithdrawal

\* C9: at the end of every month no goal still active lies strictly below
\* that month's balance_after.
C9_NoActiveGoalBelowBalance ==
    (pc = "while" /\ x0 > 0) =>
        \A i \in 1..Len(heap[goals]) : heap[goals][i] >= Last(y)

\* a month ended with withdrawals made and a goal still active
C9_Witness ==
    /\ pc = "while" /\ x0 > 0
    /\ Len(heap[goals]) > 0
    /\ Len(withdraw_months) > 0
    /\ heap[goals][1] < grown

\* C10: the running balance and every recorded balance are never negative.
C10_BalanceNeverNegative ==
    /\ y0 >= 0
    /\ \A i \in 1..Len(y) : y[i] >= 0
    /\ \A i \in 1..Len(y_start) : y_start[i] >= 0

\* a withdrawal took the whole balance
C10_Witness ==
    /\ pc = "for"
    /\ fired # {}
    /\ travelbudget > 0
    /\ y0 = 0

====
